---- MODULE Spec2Model ----
(***************************************************************************)
(* A model of the four request handlers under src/lambda: airport.py,      *)
(* airport_search.py, metar.py and winds_aloft.py, with the two            *)
(* module-level caches (_airport_cache, _station_coords_cache).            *)
(*                                                                         *)
(* Python strings are sequences of one-character strings, so that upper(), *)
(* lower(), strip(), split(), startswith() and `in` are computed and not   *)
(* assumed.  None and an absent query parameter are the empty tuple, a     *)
(* present value v is the one-element tuple <<v>>.                         *)
(***************************************************************************)
EXTENDS Naturals, Integers, Sequences, FiniteSets, TLC

VARIABLES
    airport_cache,          \* airport_search.py: _airport_cache
    station_coords_cache,   \* winds_aloft.py: _station_coords_cache
    request,                \* the call being answered: the handler (or function) and its parameters
    outbound,               \* the outbound HTTP calls that call issued, in order
    upstream,               \* what the remote answered to each of them
    limit,                  \* airport_search.py handler: its local variable limit
    requested,              \* the codes the calls of fetch_station_coordinates so far were given
    ret,                    \* the value a function called directly returned
    airport_fetches,        \* the calls of fetch_all_airports in flight: where each is, and its locals
    coord_fetches,          \* the calls of fetch_station_coordinates in flight: where each is, and its locals
    response                \* the response the handler returned

vars == <<airport_cache, station_coords_cache, request, outbound, upstream, limit,
          requested, ret, airport_fetches, coord_fetches, response>>

-----------------------------------------------------------------------------
(* Bounds of the model.                                                    *)

MaxAirports == 3
MaxLimit == 3
MaxLines == 2
MaxInvocations == 2

-----------------------------------------------------------------------------
(* Python values.                                                          *)

None == <<>>
Some(v) == <<v>>
IsNone(o) == Len(o) = 0
Value(o) == o[1]

BSeq(S, n) == UNION {[1..k -> S] : k \in 0..n}

Range(s) == {s[i] : i \in 1..Len(s)}

(* str: the characters the model uses, in code point order.                *)
Uppers == <<"A","B","C","D","E","F","G","H","I","J","K","L","M",
            "N","O","P","Q","R","S","T","U","V","W","X","Y","Z">>
Lowers == <<"a","b","c","d","e","f","g","h","i","j","k","l","m",
            "n","o","p","q","r","s","t","u","v","w","x","y","z">>
Digits == <<"0","1","2","3","4","5","6","7","8","9">>
Chars == <<"\t", "\n", "\r", " ", "(", "+", "-", ".">> \o Digits \o Uppers \o Lowers

CharSet == {Chars[i] : i \in 1..Len(Chars)}
OrdTable == [c \in CharSet |-> CHOOSE i \in 1..Len(Chars) : Chars[i] = c]
Ord(c) == OrdTable[c]

IsUpper(c) == \E i \in 1..Len(Uppers) : Uppers[i] = c
IsLower(c) == \E i \in 1..Len(Lowers) : Lowers[i] = c
IsDigit(c) == \E i \in 1..Len(Digits) : Digits[i] = c
IsSpace(c) == c \in {" ", "\t", "\n", "\r"}

UpperTable ==
    [c \in CharSet |-> IF IsLower(c) THEN Uppers[CHOOSE i \in 1..Len(Lowers) : Lowers[i] = c] ELSE c]
LowerTable ==
    [c \in CharSet |-> IF IsUpper(c) THEN Lowers[CHOOSE i \in 1..Len(Uppers) : Uppers[i] = c] ELSE c]
UpperChar(c) == UpperTable[c]
LowerChar(c) == LowerTable[c]
DigitVal(c) == (CHOOSE i \in 1..Len(Digits) : Digits[i] = c) - 1

(* str.upper(), str.lower()                                                *)
Upper(s) == [i \in 1..Len(s) |-> UpperChar(s[i])]
Lower(s) == [i \in 1..Len(s) |-> LowerChar(s[i])]

(* str.lstrip(), str.rstrip(), str.strip()                                 *)
RECURSIVE LStrip(_)
LStrip(s) == IF Len(s) > 0 /\ IsSpace(Head(s)) THEN LStrip(Tail(s)) ELSE s
RECURSIVE RStrip(_)
RStrip(s) == IF Len(s) > 0 /\ IsSpace(s[Len(s)]) THEN RStrip(SubSeq(s, 1, Len(s) - 1)) ELSE s
Strip(s) == RStrip(LStrip(s))

(* str.startswith(p), and p in s                                           *)
StartsWith(s, p) == Len(p) <= Len(s) /\ SubSeq(s, 1, Len(p)) = p
Contains(s, p) == \E i \in 0..(Len(s) - Len(p)) : SubSeq(s, i + 1, i + Len(p)) = p

(* str.isalpha(): non-empty and every character a letter.                  *)
IsAlpha(s) == Len(s) > 0 /\ \A i \in 1..Len(s) : IsUpper(s[i]) \/ IsLower(s[i])

(* s < t for str: lexicographic by code point.                             *)
RECURSIVE StrLess(_, _)
StrLess(s, t) ==
    IF Len(t) = 0 THEN FALSE
    ELSE IF Len(s) = 0 THEN TRUE
    ELSE IF Head(s) = Head(t) THEN StrLess(Tail(s), Tail(t))
    ELSE Ord(Head(s)) < Ord(Head(t))

(* str.split(sep) for a one-character separator: the pieces between the    *)
(* separators, empty ones kept.                                            *)
RECURSIVE SplitOn(_, _)
SplitOn(s, sep) ==
    IF \A i \in 1..Len(s) : s[i] # sep THEN <<s>>
    ELSE LET k == CHOOSE i \in 1..Len(s) : s[i] = sep /\ \A j \in 1..(i - 1) : s[j] # sep
         IN  <<SubSeq(s, 1, k - 1)>> \o SplitOn(SubSeq(s, k + 1, Len(s)), sep)

(* str.split(): the maximal runs of non-whitespace characters.             *)
RECURSIVE SplitWs(_)
SplitWs(s) ==
    LET t == LStrip(s)
    IN  IF Len(t) = 0 THEN <<>>
        ELSE LET k == IF \E i \in 1..Len(t) : IsSpace(t[i])
                      THEN (CHOOSE i \in 1..Len(t) : IsSpace(t[i]) /\ \A j \in 1..(i - 1) : ~IsSpace(t[j])) - 1
                      ELSE Len(t)
             IN  <<SubSeq(t, 1, k)>> \o SplitWs(SubSeq(t, k + 1, Len(t)))

(* The lines of a text, joined with newlines.                              *)
RECURSIVE JoinLines(_)
JoinLines(ls) ==
    IF Len(ls) = 0 THEN <<>>
    ELSE IF Len(ls) = 1 THEN ls[1]
    ELSE ls[1] \o <<"\n">> \o JoinLines(Tail(ls))

(* list(a set): the elements in an order the hash decides.                 *)
ListsOf(S) == {s \in [1..Cardinality(S) -> S] : Range(s) = S}

(* The headers of a response.                                              *)
ErrorHeaders ==
    ("Access-Control-Allow-Origin" :> "*") @@ ("Content-Type" :> "application/json")

-----------------------------------------------------------------------------
(* airport_search.py                                                       *)

(* int(s) for the strings of the model: surrounding whitespace, an         *)
(* optional sign and decimal digits; None stands for ValueError.           *)
RECURSIVE DigitsValue(_)
DigitsValue(s) == IF Len(s) = 0 THEN 0 ELSE DigitsValue(SubSeq(s, 1, Len(s) - 1)) * 10 + DigitVal(s[Len(s)])

ParseInt(s) ==
    LET t == Strip(s)
        signed == Len(t) > 0 /\ Head(t) \in {"+", "-"}
        d == IF signed THEN Tail(t) ELSE t
    IN  IF Len(d) > 0 /\ \A i \in 1..Len(d) : IsDigit(d[i])
        THEN Some(IF signed /\ Head(t) = "-" THEN 0 - DigitsValue(d) ELSE DigitsValue(d))
        ELSE None

(* float(s), on the same strings (the model's coordinates are integral).   *)
ParseFloat(s) == ParseInt(s)

Min(a, b) == IF a <= b THEN a ELSE b
Max(a, b) == IF a >= b THEN a ELSE b

(* airports.sort(key=lambda x: x['icao']): list.sort is stable, so an      *)
(* airport goes after every airport whose code is not greater.             *)
RECURSIVE InsertByIcao(_, _)
InsertByIcao(sorted, a) ==
    IF Len(sorted) = 0 THEN <<a>>
    ELSE IF StrLess(a.icao, sorted[Len(sorted)].icao)
         THEN InsertByIcao(SubSeq(sorted, 1, Len(sorted) - 1), a) \o <<sorted[Len(sorted)]>>
         ELSE sorted \o <<a>>

RECURSIVE SortByIcao(_)
SortByIcao(airports) ==
    IF Len(airports) = 0 THEN <<>>
    ELSE InsertByIcao(SortByIcao(SubSeq(airports, 1, Len(airports) - 1)), airports[Len(airports)])

AirportTypes == {"large_airport", "medium_airport", "small_airport"}

(* The loop over the CSV rows.  A row is skipped (continue), appended, or  *)
(* raises: a row cut short after iso_country has iso_region None, and      *)
(* `'-' in None` is a TypeError the row loop does not catch.  None stands  *)
(* for that exception, which leaves the function through its outer except. *)
RECURSIVE ParseRows(_, _)
ParseRows(rows, airports) ==
    IF Len(rows) = 0 THEN Some(airports)
    ELSE LET row == Head(rows)
             icao == IF Len(row.icao_code) > 0 THEN row.icao_code ELSE row.ident
             lat == ParseFloat(row.latitude_deg)
             lon == ParseFloat(row.longitude_deg)
         IN  IF row.iso_country # "US" THEN ParseRows(Tail(rows), airports)
             ELSE IF Len(icao) < 3 THEN ParseRows(Tail(rows), airports)
             ELSE IF row.type \notin AirportTypes THEN ParseRows(Tail(rows), airports)
             ELSE IF IsNone(lat) \/ IsNone(lon) THEN ParseRows(Tail(rows), airports)
             ELSE IF IsNone(row.iso_region) THEN None
             ELSE LET iso_region == Value(row.iso_region)
                      state == IF Contains(iso_region, <<"-">>) THEN SplitOn(iso_region, "-")[2] ELSE <<>>
                  IN  ParseRows(Tail(rows),
                                airports \o <<[icao |-> Upper(icao), name |-> row.name, state |-> state,
                                               lat |-> Value(lat), lon |-> Value(lon)]>>)

(* What the dataset fetch of one call can meet: urlopen, read or decode    *)
(* raise, or the CSV text arrives (its rows, as csv.DictReader gives them).*)
DatasetError == [kind |-> "error", rows |-> <<>>]
DatasetData(rows) == [kind |-> "data", rows |-> rows]

DatasetRequest == [api |-> "airports.csv", ids |-> <<>>]

(* The airports the try block builds, None when it raises.                 *)
LoadAirports(outcome) ==
    IF outcome.kind = "error" THEN None
    ELSE LET parsed == ParseRows(outcome.rows, <<>>)
         IN  IF IsNone(parsed) THEN None ELSE Some(SortByIcao(Value(parsed)))

(* Mutants of fetch_all_airports: one that never looks at the cache, one   *)
(* that stores the empty list when the fetch fails.                        *)
fetch_all_airports_uncached(cache, outcome) ==
    LET loaded == LoadAirports(outcome)
    IN  IF IsNone(loaded)
        THEN [cache |-> cache, airports |-> <<>>,
              outbound |-> <<DatasetRequest>>, upstream |-> <<outcome>>]
        ELSE [cache |-> loaded, airports |-> Value(loaded),
              outbound |-> <<DatasetRequest>>, upstream |-> <<outcome>>]

fetch_all_airports_caching_failure(cache, outcome) ==
    IF ~IsNone(cache)
    THEN [cache |-> cache, airports |-> Value(cache), outbound |-> <<>>, upstream |-> <<>>]
    ELSE LET loaded == LoadAirports(outcome)
         IN  IF IsNone(loaded)
             THEN [cache |-> Some(<<>>), airports |-> <<>>,
                   outbound |-> <<DatasetRequest>>, upstream |-> <<outcome>>]
             ELSE [cache |-> loaded, airports |-> Value(loaded),
                   outbound |-> <<DatasetRequest>>, upstream |-> <<outcome>>]

(* fetch_all_airports(): the new value of _airport_cache, the list         *)
(* returned and the outbound calls made, given the cache and what the      *)
(* remote would answer.                                                    *)
fetch_all_airports(cache, outcome) ==
    IF ~IsNone(cache)
    THEN [cache |-> cache, airports |-> Value(cache), outbound |-> <<>>, upstream |-> <<>>]
    ELSE LET loaded == LoadAirports(outcome)
         IN  IF IsNone(loaded)
             THEN [cache |-> cache, airports |-> <<>>,
                   outbound |-> <<DatasetRequest>>, upstream |-> <<outcome>>]
             ELSE [cache |-> loaded, airports |-> Value(loaded),
                   outbound |-> <<DatasetRequest>>, upstream |-> <<outcome>>]

(* The first pass of search_airports: the positions appended, in order,    *)
(* stopping (return results) once there are `lim` of them.                 *)
RECURSIVE PrefixPass(_, _, _, _, _)
PrefixPass(airports, query_upper, lim, i, results) ==
    IF i > Len(airports) THEN [results |-> results, returned |-> FALSE]
    ELSE IF StartsWith(airports[i].icao, query_upper)
         THEN IF Len(results) + 1 >= lim
              THEN [results |-> Append(results, i), returned |-> TRUE]
              ELSE PrefixPass(airports, query_upper, lim, i + 1, Append(results, i))
         ELSE PrefixPass(airports, query_upper, lim, i + 1, results)

(* The second pass: airports whose code is not one of seen_icaos and whose *)
(* lowercased name contains the query, stopping (break) at `lim` results.  *)
RECURSIVE NamePass(_, _, _, _, _, _)
NamePass(airports, query_lower, lim, seen_icaos, i, results) ==
    IF i > Len(airports) THEN results
    ELSE IF airports[i].icao \notin seen_icaos /\ Contains(Lower(airports[i].name), query_lower)
         THEN IF Len(results) + 1 >= lim
              THEN Append(results, i)
              ELSE NamePass(airports, query_lower, lim, seen_icaos, i + 1, Append(results, i))
         ELSE NamePass(airports, query_lower, lim, seen_icaos, i + 1, results)

(* Mutant of search_airports: the second pass forgets seen_icaos.          *)
search_airports_no_seen(airports, query, lim) ==
    IF Len(query) = 0 THEN <<>>
    ELSE LET query_upper == Strip(Upper(query))
             query_lower == Strip(Lower(query))
             first == PrefixPass(airports, query_upper, lim, 1, <<>>)
         IN  IF first.returned THEN first.results
             ELSE IF Len(first.results) < lim
                  THEN NamePass(airports, query_lower, lim, {}, 1, first.results)
                  ELSE first.results

(* search_airports(query, limit) once fetch_all_airports has returned      *)
(* `airports`: the positions in `airports` of the records returned (the    *)
(* list returned holds those very objects).                                *)
search_airports(airports, query, lim) ==
    IF Len(query) = 0 THEN <<>>
    ELSE LET query_upper == Strip(Upper(query))
             query_lower == Strip(Lower(query))
             first == PrefixPass(airports, query_upper, lim, 1, <<>>)
         IN  IF first.returned THEN first.results
             ELSE IF Len(first.results) < lim
                  THEN NamePass(airports, query_lower, lim,
                                {airports[first.results[k]].icao : k \in 1..Len(first.results)},
                                1, first.results)
                  ELSE first.results

Deref(airports, positions) == [k \in 1..Len(positions) |-> airports[positions[k]]]

(* handler(): limit = int(params.get('limit', '15')), clamped; 15 on       *)
(* ValueError.                                                             *)
DefaultLimit == <<"1", "5">>

(* Mutant of EffectiveLimit: the lower clamp forgotten.                    *)
EffectiveLimit_no_floor(limit_param) ==
    LET parsed == ParseInt(IF IsNone(limit_param) THEN DefaultLimit ELSE Value(limit_param))
    IN  IF IsNone(parsed) THEN 15 ELSE Min(Value(parsed), 50)

EffectiveLimit(limit_param) ==
    LET parsed == ParseInt(IF IsNone(limit_param) THEN DefaultLimit ELSE Value(limit_param))
    IN  IF IsNone(parsed) THEN 15 ELSE Min(Max(Value(parsed), 1), 50)

ShortQueryHeaders ==
    ("Access-Control-Allow-Origin" :> "*") @@ ("Access-Control-Allow-Headers" :> "Content-Type")
    @@ ("Access-Control-Allow-Methods" :> "GET,OPTIONS") @@ ("Content-Type" :> "application/json")

SearchHeaders == ShortQueryHeaders @@ ("Cache-Control" :> "max-age=3600")

JsonBody(v) == [kind |-> "json", value |-> v]
TextBody(v) == [kind |-> "text", value |-> v]

-----------------------------------------------------------------------------
(* winds_aloft.py                                                          *)

(* The header prefixes a line is skipped for, and the marker it is skipped *)
(* for wherever it stands.                                                 *)
HeaderPrefixes == {<<"(">>, <<"F","D">>, <<"D","A","T","A">>, <<"V","A","L","I","D">>, <<"F","T">>}
TempsNeg == <<"T","E","M","P","S"," ","N","E","G">>

(* Mutant of IsHeaderLine: the FT prefix forgotten.                        *)
IsHeaderLine_no_ft(line) ==
    \/ Len(line) = 0
    \/ \E p \in HeaderPrefixes \ {<<"F","T">>} : StartsWith(line, p)
    \/ Contains(line, TempsNeg)

IsHeaderLine(line) ==
    \/ Len(line) = 0
    \/ \E p \in HeaderPrefixes : StartsWith(line, p)
    \/ Contains(line, TempsNeg)

(* The loop of extract_station_codes over the lines: each is stripped,     *)
(* skipped if a header, else its first split() part is added when it has   *)
(* 3 characters, all letters.                                              *)
RECURSIVE ExtractLoop(_, _)
ExtractLoop(lines, stations) ==
    IF Len(lines) = 0 THEN stations
    ELSE LET line == Strip(Head(lines))
             parts == SplitWs(line)
         IN  IF IsHeaderLine(line) THEN ExtractLoop(Tail(lines), stations)
             ELSE IF Len(parts) > 0 /\ Len(parts[1]) = 3 /\ IsAlpha(parts[1])
                  THEN ExtractLoop(Tail(lines), stations \cup {parts[1]})
                  ELSE ExtractLoop(Tail(lines), stations)

(* extract_station_codes(raw_data): the set `stations`; the list returned  *)
(* is that set in an order of the interpreter's choosing (ListsOf).        *)
extract_station_codes(raw_data) == ExtractLoop(SplitOn(raw_data, "\n"), {})

(* dict assignment d[k] = v                                                *)
Put(d, k, v) == (k :> v) @@ d
EmptyDict == [k \in {} |-> k]

(* What the coordinate lookup of one call can meet: urlopen, read or       *)
(* decode raise ("error"); the body is empty ("empty"); json.loads raises  *)
(* ("malformed"); or a list of stations arrives, any of which may be       *)
(* something station.get or icao.startswith raises on (bad).               *)
CoordError == [kind |-> "error", stations |-> <<>>]
CoordEmpty == [kind |-> "empty", stations |-> <<>>]
CoordMalformed == [kind |-> "malformed", stations |-> <<>>]
CoordJson(stations) == [kind |-> "json", stations |-> stations]
Station(icaoId, lat, lon) == [bad |-> FALSE, icaoId |-> icaoId, lat |-> lat, lon |-> lon]
BadStation == [bad |-> TRUE, icaoId |-> <<>>, lat |-> 0, lon |-> 0]

(* The first loop: what the cache already answers, and what is left.       *)
RECURSIVE CacheCheck(_, _, _, _)
CacheCheck(station_codes, cache, coords, codes_to_fetch) ==
    IF Len(station_codes) = 0 THEN [coords |-> coords, codes_to_fetch |-> codes_to_fetch]
    ELSE LET code == Head(station_codes)
         IN  IF code \in DOMAIN cache
             THEN IF ~IsNone(cache[code])
                  THEN CacheCheck(Tail(station_codes), cache, Put(coords, code, Value(cache[code])), codes_to_fetch)
                  ELSE CacheCheck(Tail(station_codes), cache, coords, codes_to_fetch)
             ELSE CacheCheck(Tail(station_codes), cache, coords, Append(codes_to_fetch, code))

(* The loop over stations_data: each station found among codes_to_fetch is *)
(* put in coords and in the cache; a bad one raises and ends the loop.     *)
RECURSIVE StationLoop(_, _, _, _)
StationLoop(stations, codes_to_fetch, coords, cache) ==
    IF Len(stations) = 0 THEN [coords |-> coords, cache |-> cache, raised |-> FALSE]
    ELSE LET station == Head(stations)
             icao == station.icaoId
             faa_code == IF StartsWith(icao, <<"K">>) /\ Len(icao) = 4 THEN Tail(icao) ELSE icao
             coord == [lat |-> station.lat, lon |-> station.lon]
         IN  IF station.bad THEN [coords |-> coords, cache |-> cache, raised |-> TRUE]
             ELSE IF faa_code \in Range(codes_to_fetch)
                  THEN StationLoop(Tail(stations), codes_to_fetch,
                                   Put(coords, faa_code, coord), Put(cache, faa_code, Some(coord)))
                  ELSE StationLoop(Tail(stations), codes_to_fetch, coords, cache)

(* for code in codes_to_fetch: if code not in coords: cache[code] = None   *)
RECURSIVE MarkMissing(_, _, _)
MarkMissing(codes_to_fetch, coords, cache) ==
    IF Len(codes_to_fetch) = 0 THEN cache
    ELSE MarkMissing(Tail(codes_to_fetch), coords,
                     IF Head(codes_to_fetch) \notin DOMAIN coords
                     THEN Put(cache, Head(codes_to_fetch), None) ELSE cache)

(* except: for code in codes_to_fetch: cache[code] = None                  *)
RECURSIVE MarkAll(_, _)
MarkAll(codes_to_fetch, cache) ==
    IF Len(codes_to_fetch) = 0 THEN cache
    ELSE MarkAll(Tail(codes_to_fetch), Put(cache, Head(codes_to_fetch), None))

StationInfoRequest(codes_to_fetch) ==
    [api |-> "stationinfo", ids |-> [i \in 1..Len(codes_to_fetch) |-> <<"K">> \o codes_to_fetch[i]]]

(* The part of fetch_station_coordinates after `if not codes_to_fetch`.    *)
LookupCoordinates(checked, cache, outcome) ==
    LET codes_to_fetch == checked.codes_to_fetch
        looped == StationLoop(outcome.stations, codes_to_fetch, checked.coords, cache)
    IN  IF outcome.kind \in {"error", "malformed"}
        THEN [cache |-> MarkAll(codes_to_fetch, cache), coords |-> checked.coords]
        ELSE IF outcome.kind = "empty"
        THEN [cache |-> MarkMissing(codes_to_fetch, checked.coords, cache), coords |-> checked.coords]
        ELSE IF looped.raised
        THEN [cache |-> MarkAll(codes_to_fetch, looped.cache), coords |-> looped.coords]
        ELSE [cache |-> MarkMissing(codes_to_fetch, looped.coords, looped.cache), coords |-> looped.coords]

(* Mutants of fetch_station_coordinates: one that leaves the codes of a    *)
(* failed lookup uncached, one that lets the failure out to its caller.    *)
fetch_station_coordinates_retrying(station_codes, cache, outcome) ==
    LET checked == CacheCheck(station_codes, cache, EmptyDict, <<>>)
        looked == LookupCoordinates(checked, cache, outcome)
    IN  IF Len(checked.codes_to_fetch) = 0
        THEN [cache |-> cache, coords |-> checked.coords, raised |-> FALSE,
              outbound |-> <<>>, upstream |-> <<>>]
        ELSE [cache |-> IF outcome.kind = "error" THEN cache ELSE looked.cache,
              coords |-> looked.coords, raised |-> FALSE,
              outbound |-> <<StationInfoRequest(checked.codes_to_fetch)>>, upstream |-> <<outcome>>]

fetch_station_coordinates_raising(station_codes, cache, outcome) ==
    LET checked == CacheCheck(station_codes, cache, EmptyDict, <<>>)
        looked == LookupCoordinates(checked, cache, outcome)
    IN  IF Len(checked.codes_to_fetch) = 0
        THEN [cache |-> cache, coords |-> checked.coords, raised |-> FALSE,
              outbound |-> <<>>, upstream |-> <<>>]
        ELSE [cache |-> looked.cache, coords |-> looked.coords,
              raised |-> outcome.kind \in {"error", "malformed"},
              outbound |-> <<StationInfoRequest(checked.codes_to_fetch)>>, upstream |-> <<outcome>>]

(* fetch_station_coordinates(station_codes): the new _station_coords_cache,*)
(* the mapping returned, whether an exception leaves the function (none    *)
(* does: the try block catches Exception) and the outbound calls made.     *)
fetch_station_coordinates(station_codes, cache, outcome) ==
    LET checked == CacheCheck(station_codes, cache, EmptyDict, <<>>)
        looked == LookupCoordinates(checked, cache, outcome)
    IN  IF Len(checked.codes_to_fetch) = 0
        THEN [cache |-> cache, coords |-> checked.coords, raised |-> FALSE,
              outbound |-> <<>>, upstream |-> <<>>]
        ELSE [cache |-> looked.cache, coords |-> looked.coords, raised |-> FALSE,
              outbound |-> <<StationInfoRequest(checked.codes_to_fetch)>>, upstream |-> <<outcome>>]

NoCall == [fn |-> "none", args |-> <<>>, value |-> <<>>]
NoRequest == [handler |-> "none"]
NoResponse == [statusCode |-> 0, headers |-> <<>>, body |-> TextBody(<<>>)]

(* The calls that may be in flight at once in one process, and a call that *)
(* has not been made yet.                                                  *)
Invocations == 1..MaxInvocations
NotCalled == [pc |-> "idle"]

(* Mutant of MinQueryLen: one character is enough.                         *)
MinQueryLen_one == 2 - 1

(* len(query) < 2 answers at once.                                         *)
MinQueryLen == 2

(* handler(event, context) of airport_search.py, for the parameters q and  *)
(* limit (None when absent) and what the dataset fetch would meet.         *)
(* search_airports raises nothing on records fetch_all_airports built, so  *)
(* the handler's own except branch is not taken.                           *)
AirportSearchHandler(q, limit_param, outcome) ==
    LET query == IF IsNone(q) THEN <<>> ELSE Value(q)
        lim == EffectiveLimit(limit_param)
    IN  /\ request' = [handler |-> "airport_search", q |-> q, limit |-> limit_param]
        /\ limit' = lim
        /\ IF Len(query) < MinQueryLen
           THEN /\ response' = [statusCode |-> 200, headers |-> ShortQueryHeaders, body |-> JsonBody(<<>>)]
                /\ outbound' = <<>>
                /\ upstream' = <<>>
                /\ ret' = NoCall
                /\ UNCHANGED airport_cache
           ELSE \E f \in {fetch_all_airports(airport_cache, outcome)} :
                LET results == Deref(f.airports, search_airports(f.airports, query, lim))
                IN  /\ airport_cache' = f.cache
                    /\ outbound' = f.outbound
                    /\ upstream' = f.upstream
                    /\ ret' = [fn |-> "fetch_all_airports", args |-> <<>>, value |-> f.airports]
                    /\ response' = [statusCode |-> 200, headers |-> SearchHeaders, body |-> JsonBody(results)]
        /\ UNCHANGED <<station_coords_cache, requested, airport_fetches, coord_fetches>>

(* handler(event, context) of winds_aloft.py, for the parameters region    *)
(* and fcst (None when absent), what the bulletin fetch would meet and     *)
(* what the coordinate lookup would meet.                                  *)
valid_regions == {"bos", "mia", "chi", "dfw", "slc", "sfo"}
valid_fcsts == {"6", "12", "24"}

WindsHeaders ==
    ("Access-Control-Allow-Origin" :> "*") @@ ("Access-Control-Allow-Headers" :> "Content-Type")
    @@ ("Access-Control-Allow-Methods" :> "GET,OPTIONS") @@ ("Content-Type" :> "application/json")
    @@ ("Cache-Control" :> "max-age=1800")

ErrorResponse(status, message) ==
    [statusCode |-> status, headers |-> ErrorHeaders, body |-> JsonBody([error |-> message])]

(* What a single fetch of text can meet: urllib.error.HTTPError with a     *)
(* status, urllib.error.URLError, another exception, or the text.          *)
HttpError(code) == [kind |-> "http_error", code |-> code, text |-> <<>>]
UrlError == [kind |-> "url_error", code |-> 0, text |-> <<>>]
OtherError == [kind |-> "other_error", code |-> 0, text |-> <<>>]
TextData(text) == [kind |-> "data", code |-> 200, text |-> text]

(* The except branches shared by the handlers that fetch one text.         *)
FetchErrorResponse(outcome, what) ==
    IF outcome.kind = "http_error" THEN ErrorResponse(outcome.code, what)
    ELSE IF outcome.kind = "url_error" THEN ErrorResponse(503, "Failed to connect")
    ELSE ErrorResponse(500, "Internal server error")

WindsAloftHandler(region_param, fcst_param, bulletin, outcome) ==
    LET region == IF IsNone(region_param) THEN "bos" ELSE Value(region_param)
        fcst == IF IsNone(fcst_param) THEN "6" ELSE Value(fcst_param)
        windtemp == [api |-> "windtemp", ids |-> <<region, fcst>>]
    IN  /\ request' = [handler |-> "winds_aloft", region |-> region_param, fcst |-> fcst_param]
        /\ IF region \notin valid_regions
           THEN /\ response' = ErrorResponse(400, "Invalid region")
                /\ outbound' = <<>>
                /\ upstream' = <<>>
                /\ ret' = NoCall
                /\ UNCHANGED <<station_coords_cache, requested>>
           ELSE IF fcst \notin valid_fcsts
           THEN /\ response' = ErrorResponse(400, "Invalid forecast period")
                /\ outbound' = <<>>
                /\ upstream' = <<>>
                /\ ret' = NoCall
                /\ UNCHANGED <<station_coords_cache, requested>>
           ELSE IF bulletin.kind # "data"
           THEN /\ response' = FetchErrorResponse(bulletin, "Failed to fetch winds aloft data")
                /\ outbound' = <<windtemp>>
                /\ upstream' = <<bulletin>>
                /\ ret' = NoCall
                /\ UNCHANGED <<station_coords_cache, requested>>
           ELSE \E station_codes \in ListsOf(extract_station_codes(bulletin.text)) :
                \E f \in {fetch_station_coordinates(station_codes, station_coords_cache, outcome)} :
                    /\ station_coords_cache' = f.cache
                    /\ requested' = requested \cup Range(station_codes)
                    /\ outbound' = <<windtemp>> \o f.outbound
                    /\ upstream' = <<bulletin>> \o f.upstream
                    /\ ret' = [fn |-> "fetch_station_coordinates", args |-> station_codes, value |-> f.coords]
                    /\ response' =
                          IF f.raised THEN ErrorResponse(500, "Internal server error")
                          ELSE [statusCode |-> 200, headers |-> WindsHeaders,
                                body |-> JsonBody([raw |-> bulletin.text, stationCoords |-> f.coords])]
        /\ UNCHANGED <<airport_cache, limit, airport_fetches, coord_fetches>>

(* A pending direct call of extract_station_codes(raw_data) returns.       *)
ExtractStationCodesCall(raw_data) ==
    \E stations \in ListsOf(extract_station_codes(raw_data)) :
        /\ request = [handler |-> "extract_station_codes", raw_data |-> raw_data]
        /\ ret = NoCall
        /\ UNCHANGED request
        /\ ret' = [fn |-> "extract_station_codes", args |-> raw_data, value |-> stations]
        /\ UNCHANGED <<airport_cache, station_coords_cache, requested, outbound, upstream, limit, response,
                       airport_fetches, coord_fetches>>

-----------------------------------------------------------------------------
(* airport.py and metar.py                                                 *)

(* Mutant of AirportIcaoValid: five characters accepted.                   *)
AirportIcaoValid_upto5(icao) == ~(Len(icao) = 0 \/ Len(icao) < 3 \/ Len(icao) > 5)

(* airport.py: not (not icao or len(icao) < 3 or len(icao) > 4)            *)
AirportIcaoValid(icao) == ~(Len(icao) = 0 \/ Len(icao) < 3 \/ Len(icao) > 4)

(* metar.py: the same test.                                                *)
MetarIcaoValid(icao) == ~(Len(icao) = 0 \/ Len(icao) < 3 \/ Len(icao) > 4)

AirportHeaders ==
    ("Access-Control-Allow-Origin" :> "*") @@ ("Access-Control-Allow-Headers" :> "Content-Type")
    @@ ("Access-Control-Allow-Methods" :> "GET,OPTIONS") @@ ("Content-Type" :> "application/json")
    @@ ("Cache-Control" :> "max-age=86400")

MetarHeaders ==
    ("Access-Control-Allow-Origin" :> "*") @@ ("Access-Control-Allow-Headers" :> "Content-Type")
    @@ ("Access-Control-Allow-Methods" :> "GET,OPTIONS") @@ ("Content-Type" :> "text/plain")
    @@ ("Cache-Control" :> "max-age=300")

(* What the station lookup of airport.py can meet besides the errors of a  *)
(* text fetch: a blank body, a body json.loads raises on, or a list of     *)
(* stations (the first may be something station.get raises on).            *)
LookupBlank == [kind |-> "blank", code |-> 200, stations |-> <<>>]
LookupMalformed == [kind |-> "malformed", code |-> 200, stations |-> <<>>]
LookupJson(stations) == [kind |-> "json", code |-> 200, stations |-> stations]

OrElse(o, default) == IF IsNone(o) THEN default ELSE Value(o)

(* round(meters * 3.28084), for whole meters.                              *)
MetersToFeet(meters) == (meters * 328084 + 50000) \div 100000

(* airport_data: the fields projected from the first station.              *)
AirportData(station, icao) ==
    [icao |-> OrElse(station.icaoId, icao),
     name |-> OrElse(station.site, <<"U","n","k","n","o","w","n">>),
     lat |-> station.lat,
     lon |-> station.lon,
     elevation |-> IF IsNone(station.elev) THEN None ELSE Some(MetersToFeet(Value(station.elev))),
     state |-> OrElse(station.state, <<>>),
     country |-> OrElse(station.country, <<>>)]

(* handler(event, context) of airport.py, for the parameter icao (None     *)
(* when absent) and what the station lookup would meet.                    *)
AirportLookupHandler(icao_param, outcome) ==
    LET icao == Strip(Upper(IF IsNone(icao_param) THEN <<>> ELSE Value(icao_param)))
    IN  /\ request' = [handler |-> "airport_lookup", icao |-> icao_param]
        /\ IF ~AirportIcaoValid(icao)
           THEN /\ response' = ErrorResponse(400, "Invalid ICAO code")
                /\ outbound' = <<>>
                /\ upstream' = <<>>
           ELSE /\ outbound' = <<[api |-> "stationinfo", ids |-> <<icao>>]>>
                /\ upstream' = <<outcome>>
                /\ response' =
                      IF outcome.kind \in {"http_error", "url_error", "other_error"}
                      THEN FetchErrorResponse(outcome, "Failed to fetch airport data")
                      ELSE IF outcome.kind = "blank" THEN ErrorResponse(404, "Airport not found")
                      ELSE IF outcome.kind = "malformed"
                      THEN ErrorResponse(500, "Invalid response from aviation service")
                      ELSE IF Len(outcome.stations) = 0 THEN ErrorResponse(404, "Airport not found")
                      ELSE IF outcome.stations[1].bad THEN ErrorResponse(500, "Internal server error")
                      ELSE [statusCode |-> 200, headers |-> AirportHeaders,
                            body |-> JsonBody(AirportData(outcome.stations[1], icao))]
        /\ ret' = NoCall
        /\ UNCHANGED <<airport_cache, station_coords_cache, requested, limit,
                       airport_fetches, coord_fetches>>

DefaultIcao == <<"K","B","O","S">>

(* handler(event, context) of metar.py, for the parameter icao (None when  *)
(* absent) and what the METAR fetch would meet.                            *)
MetarHandler(icao_param, outcome) ==
    LET icao == Strip(Upper(IF IsNone(icao_param) THEN DefaultIcao ELSE Value(icao_param)))
    IN  /\ request' = [handler |-> "metar", icao |-> icao_param]
        /\ IF ~MetarIcaoValid(icao)
           THEN /\ response' = ErrorResponse(400, "Invalid ICAO code")
                /\ outbound' = <<>>
                /\ upstream' = <<>>
           ELSE /\ outbound' = <<[api |-> "metar", ids |-> <<icao>>]>>
                /\ upstream' = <<outcome>>
                /\ response' =
                      IF outcome.kind = "data"
                      THEN [statusCode |-> 200, headers |-> MetarHeaders, body |-> TextBody(outcome.text)]
                      ELSE FetchErrorResponse(outcome, "Failed to fetch METAR data")
        /\ ret' = NoCall
        /\ UNCHANGED <<airport_cache, station_coords_cache, requested, limit,
                       airport_fetches, coord_fetches>>

(* A direct call of search_airports(query, limit).                         *)
SearchAirportsCall(query, lim, outcome) ==
    \E f \in {fetch_all_airports(airport_cache, outcome)} :
        /\ request' = [handler |-> "search_airports", query |-> query, limit |-> lim]
        /\ airport_cache' = f.cache
        /\ outbound' = f.outbound
        /\ upstream' = f.upstream
        /\ ret' = [fn |-> "search_airports", args |-> <<query, lim>>,
                   value |-> search_airports(f.airports, query, lim)]
        /\ UNCHANGED <<station_coords_cache, requested, limit, response, airport_fetches, coord_fetches>>

-----------------------------------------------------------------------------
(* The inputs of airport_search.py.                                        *)

Row(country, icao_code, ident, type, lat, lon, name, region) ==
    [iso_country |-> country, icao_code |-> icao_code, ident |-> ident, type |-> type,
     latitude_deg |-> lat, longitude_deg |-> lon, name |-> name, iso_region |-> region]

US_MA == Some(<<"U","S","-","M","A">>)

RowKBOS == Row("US", <<"K","B","O","S">>, <<"K","B","O","S">>, "large_airport",
               <<"4","2">>, <<"-","7","1">>, <<"L","o","g","a","n">>, US_MA)
RowKXBO == Row("US", <<>>, <<"k","x","b","o">>, "small_airport",
               <<"4","1">>, <<"-","7","0">>, <<"B","o"," ","E","x","e","c">>, US_MA)
RowKBOA == Row("US", <<"K","B","O","A">>, <<"B","O","A">>, "medium_airport",
               <<"4","3">>, <<"-","7","2">>, <<"L","o","g","a","n"," ","I","n","t","l">>, Some(<<"U","S">>))
RowCanada == Row("CA", <<"C","Y","U","L">>, <<"C","Y","U","L">>, "large_airport",
                 <<"4","5">>, <<"-","7","3">>, <<"B","o","r","d">>, Some(<<"C","A","-","Q","C">>))
RowHeliport == Row("US", <<>>, <<"K","B","O","H">>, "heliport",
                   <<"4","2">>, <<"-","7","1">>, <<"B","o"," ","H","e","l","i">>, US_MA)
RowBadLat == Row("US", <<"K","B","O","L">>, <<"K","B","O","L">>, "small_airport",
                 <<>>, <<"-","7","1">>, <<"B","o","l","t">>, US_MA)
RowShortIdent == Row("US", <<>>, <<"B","2">>, "small_airport",
                     <<"4","2">>, <<"-","7","1">>, <<"B","o","g">>, US_MA)
RowCut == Row("US", <<"K","B","O","X">>, <<"K","B","O","X">>, "small_airport",
              <<"4","2">>, <<"-","7","1">>, <<"B","o","x">>, None)

RowKBOS2 == Row("US", <<>>, <<"K","B","O","S">>, "small_airport",
                <<"4","0">>, <<"-","7","4">>, <<"O","l","d"," ","L","o","g","a","n">>, US_MA)

(* The CSV files the remote may serve, as their rows.                      *)
Datasets ==
    {<<>>,
     <<RowKBOS>>,
     <<RowKXBO, RowKBOS>>,
     <<RowKXBO, RowCanada, RowKBOA, RowHeliport, RowBadLat, RowShortIdent>>,
     <<RowKBOS2, RowKXBO, RowKBOS, RowKBOA>>,
     <<RowCut>>,
     <<RowKBOS, RowCut, RowKBOA>>,
     <<RowCanada, RowCut>>}

DatasetOutcomes == {DatasetError} \cup {DatasetData(rows) : rows \in Datasets}

QParams ==
    {None, Some(<<>>), Some(<<"b">>), Some(<<"b","o">>), Some(<<"K","B">>),
     Some(<<"l","o">>), Some(<<"b","o"," ">>), Some(<<"z","z">>)}

LimitParams ==
    {None, Some(<<"0">>), Some(<<"-","5">>), Some(<<"a","b","c">>), Some(<<"9","9","9">>),
     Some(<<"2">>), Some(<<>>)}

-----------------------------------------------------------------------------
(* The AirportSearch handler, called again and again in one process.       *)

Init ==
    /\ airport_cache = None
    /\ station_coords_cache = EmptyDict
    /\ request = NoRequest
    /\ outbound = <<>>
    /\ upstream = <<>>
    /\ limit = 0
    /\ requested = {}
    /\ ret = NoCall
    /\ response = NoResponse
    /\ airport_fetches = [i \in Invocations |-> NotCalled]
    /\ coord_fetches = [i \in Invocations |-> NotCalled]

(* The remote's answer is drawn only for a call that reaches the fetch.    *)
SearchNext ==
    \E q \in QParams, limit_param \in LimitParams :
        \E outcome \in IF IsNone(airport_cache) /\ ~IsNone(q) THEN DatasetOutcomes ELSE {DatasetError} :
            AirportSearchHandler(q, limit_param, outcome)

SpecSearch == Init /\ [][SearchNext]_vars

-----------------------------------------------------------------------------
(* Properties of the AirportSearch handler (SpecSearch).                   *)

QueryOf(q) == IF IsNone(q) THEN <<>> ELSE Value(q)

IsSearchCall(req) == req.handler = "airport_search"

EmptyArray200(resp) == resp.statusCode = 200 /\ resp.body = JsonBody(<<>>)

(* A row the loop gets as far as its iso_region with.                      *)
RowKept(row) ==
    /\ row.iso_country = "US"
    /\ Len(IF Len(row.icao_code) > 0 THEN row.icao_code ELSE row.ident) >= 3
    /\ row.type \in AirportTypes
    /\ ~IsNone(ParseFloat(row.latitude_deg))
    /\ ~IsNone(ParseFloat(row.longitude_deg))

(* The dataset fetch or its parse fails: the transfer raises, or a row     *)
(* that is kept has no iso_region.                                         *)
DatasetFails(outcome) ==
    \/ outcome.kind = "error"
    \/ \E i \in 1..Len(outcome.rows) : RowKept(outcome.rows[i]) /\ IsNone(outcome.rows[i].iso_region)

(* C2: once _airport_cache is populated it never changes again, and every  *)
(* later call of fetch_all_airports returns the stored list and issues no  *)
(* outbound dataset fetch.                                                 *)
C2_PopulatedCacheIsNeverRefreshed ==
    [][~IsNone(airport_cache) =>
          /\ airport_cache' = airport_cache
          /\ ret'.fn = "fetch_all_airports" =>
                (ret'.value = Value(airport_cache) /\ outbound' = <<>>)]_vars

(* C2 witness: a call answered from a populated, non-empty cache.          *)
C2_Witness ==
    /\ ~IsNone(airport_cache)
    /\ Len(Value(airport_cache)) > 0
    /\ ret = [fn |-> "fetch_all_airports", args |-> <<>>, value |-> Value(airport_cache)]
    /\ outbound = <<>>

(* C3: a call of fetch_all_airports on an unpopulated cache issues the     *)
(* dataset fetch (so a call after a failure retries); when the fetch or    *)
(* parse fails it returns the empty list, leaves the cache unpopulated,    *)
(* and the handler answers 200 with an empty array.                        *)
C3_FetchFailureDegradesToEmpty ==
    [][(IsNone(airport_cache) /\ IsSearchCall(request') /\ Len(QueryOf(request'.q)) >= 2) =>
          /\ outbound' = <<DatasetRequest>>
          /\ Len(upstream') = 1
          /\ DatasetFails(upstream'[1]) =>
                /\ IsNone(airport_cache')
                /\ ret' = [fn |-> "fetch_all_airports", args |-> <<>>, value |-> <<>>]
                /\ EmptyArray200(response')]_vars

(* C3 witness: a row of the served file made the parse fail, the answer    *)
(* was 200 with an empty array and the cache is still unpopulated.         *)
C3_Witness ==
    /\ IsSearchCall(request)
    /\ Len(upstream) = 1
    /\ upstream[1].kind = "data"
    /\ DatasetFails(upstream[1])
    /\ IsNone(airport_cache)
    /\ EmptyArray200(response)

(* C5: a request whose q has fewer than 2 characters (absent included) is  *)
(* answered 200 with an empty array, issues no outbound call and leaves    *)
(* _airport_cache as it was.                                               *)
C5_ShortQueryTouchesNothing ==
    [][(IsSearchCall(request') /\ Len(QueryOf(request'.q)) < 2) =>
          /\ EmptyArray200(response')
          /\ outbound' = <<>>
          /\ airport_cache' = airport_cache]_vars

(* C5 witness: the one-character query b answered with an empty array      *)
(* while the cache holds airports.                                         *)
C5_Witness ==
    /\ IsSearchCall(request)
    /\ request.q = Some(<<"b">>)
    /\ ~IsNone(airport_cache)
    /\ Len(Value(airport_cache)) > 0
    /\ EmptyArray200(response)
    /\ outbound = <<>>

(* C6: the effective limit is min(max(n, 1), 50) when the limit parameter  *)
(* is the integer n, 15 when it is absent or not a number; it always lies  *)
(* in 1..50, and 0, -5, abc, 999 give 1, 1, 15, 50.                        *)
C6_LimitIsClamped ==
    IsSearchCall(request) =>
        LET n == IF IsNone(request.limit) THEN None ELSE ParseInt(Value(request.limit))
        IN  /\ limit \in 1..50
            /\ IsNone(n) => limit = 15
            /\ ~IsNone(n) =>
                  /\ Value(n) < 1 => limit = 1
                  /\ Value(n) > 50 => limit = 50
                  /\ Value(n) \in 1..50 => limit = Value(n)
            /\ request.limit = Some(<<"0">>) => limit = 1
            /\ request.limit = Some(<<"-","5">>) => limit = 1
            /\ request.limit = Some(<<"a","b","c">>) => limit = 15
            /\ request.limit = Some(<<"9","9","9">>) => limit = 50

(* C6 witness: limit=999 was clamped to 50.                                *)
C6_Witness ==
    /\ IsSearchCall(request)
    /\ request.limit = Some(<<"9","9","9">>)
    /\ limit = 50

-----------------------------------------------------------------------------
(* search_airports called on a populated cache (SpecSearchFn).             *)

Airport(icao, name) == [icao |-> icao, name |-> name, state |-> <<"M","A">>, lat |-> 42, lon |-> 0 - 71]

AirportUniverse ==
    {Airport(<<"K","B","O","S">>, <<"L","o","g","a","n">>),
     Airport(<<"K","X","B","O">>, <<"B","o"," ","E","x","e","c">>),
     Airport(<<"K","B","O","A">>, <<"L","o","g","a","n"," ","I","n","t","l">>),
     Airport(<<"B","O","Q">>, <<"B","o"," ","Q","u","a","y">>),
     Airport(<<"K","A","A","A">>, <<"K","b"," ","F","i","e","l","d">>)}

IsSortedByIcao(airports) ==
    \A i \in 1..Len(airports) : \A j \in (i + 1)..Len(airports) :
        ~StrLess(airports[j].icao, airports[i].icao)

SortedAirportLists == {a \in BSeq(AirportUniverse, MaxAirports) : IsSortedByIcao(a)}

FnQueries ==
    {<<"b">>, <<"b","o">>, <<"B","O">>, <<"k","b">>, <<"k","b"," ">>, <<" ","b">>, <<" "," ">>, <<"z","z">>}

InitSearchFn ==
    /\ airport_cache \in {Some(a) : a \in SortedAirportLists}
    /\ station_coords_cache = EmptyDict
    /\ request = NoRequest
    /\ outbound = <<>>
    /\ upstream = <<>>
    /\ limit = 0
    /\ requested = {}
    /\ ret = NoCall
    /\ response = NoResponse
    /\ airport_fetches = [i \in Invocations |-> NotCalled]
    /\ coord_fetches = [i \in Invocations |-> NotCalled]

SearchFnNext ==
    \E query \in FnQueries, lim \in 1..MaxLimit : SearchAirportsCall(query, lim, DatasetError)

SpecSearchFn == InitSearchFn /\ [][SearchFnNext]_vars

(* The elements of a set of numbers in increasing order.                   *)
Ascending(S) ==
    CHOOSE s \in [1..Cardinality(S) -> S] : \A i \in 1..Len(s) : \A j \in (i + 1)..Len(s) : s[i] < s[j]

Take(s, n) == SubSeq(s, 1, Min(n, Len(s)))

PrefixMatches(airports, prefix) ==
    {i \in 1..Len(airports) : StartsWith(airports[i].icao, prefix)}

NameOnlyMatches(airports, prefix, part) ==
    {i \in 1..Len(airports) : i \notin PrefixMatches(airports, prefix)
                              /\ Contains(Lower(airports[i].name), part)}

(* The result the claim describes, for the prefix and the name part the    *)
(* query stands for: prefix matches in cache order, then the other name    *)
(* matches in cache order, cut at lim.                                     *)
ClaimedResult(airports, prefix, part, lim) ==
    Take(Ascending(PrefixMatches(airports, prefix))
             \o Ascending(NameOnlyMatches(airports, prefix, part)), lim)

SearchResultIs(prefix, part) ==
    LET airports == Value(airport_cache)
        got == ret.value
    IN  /\ got = ClaimedResult(airports, prefix, part, request.limit)
        /\ Len(got) <= request.limit
        /\ \A i \in 1..Len(got) : \A j \in (i + 1)..Len(got) : got[i] # got[j]
        /\ \A i \in 1..Len(got) : \A j \in 1..Len(got) :
              (got[i] \in PrefixMatches(airports, prefix) /\ got[j] \notin PrefixMatches(airports, prefix))
                  => i < j

IsSearchFnCall(req) == req.handler = "search_airports" /\ Len(req.query) > 0 /\ req.limit >= 1

(* C4 as stated: the prefix is the uppercased query and the name part the  *)
(* lowercased query.                                                       *)
C4_AsStated ==
    IsSearchFnCall(request) => SearchResultIs(Upper(request.query), Lower(request.query))

(* C4, amended: for a non-empty query, limit >= 1 and a cache sorted by    *)
(* ICAO, search_airports returns the airports whose ICAO code starts with  *)
(* the uppercased and trimmed query, in cache order, then the airports not *)
(* already included whose lowercased name contains the lowercased and      *)
(* trimmed query, in cache order, cut at limit; never more than limit      *)
(* entries, no airport twice, every prefix match before every name-only    *)
(* match.                                                                  *)
C4_PrefixThenNameMatches ==
    IsSearchFnCall(request) =>
        SearchResultIs(Strip(Upper(request.query)), Strip(Lower(request.query)))

(* C4 witness: the query "kb " (trailing blank) on the cache KAAA, KBOA,   *)
(* KBOS returned the two prefix matches and then KAAA, matched by name.    *)
C4_Witness ==
    /\ IsSearchFnCall(request)
    /\ request.query = <<"k","b"," ">>
    /\ Len(Value(airport_cache)) = 3
    /\ ret.value = <<2, 3, 1>>

-----------------------------------------------------------------------------
(* The WindsAloftProxy handler, called again and again in one process      *)
(* (SpecWinds).                                                            *)

BOS == <<"B","O","S">>
JFK == <<"J","F","K">>
BDL == <<"B","D","L">>

Bulletins ==
    {<<>>,
     JoinLines(<<<<"F","D","1","U","S","1">>, <<"V","A","L","I","D"," ","1","2","Z">>, <<"F","T"," ","3","0","0","0">>, <<"B","O","S"," ","9","9","0","0">>>>),
     JoinLines(<<<<"F","D","1","U","S","1">>, <<"B","O","S"," ","9","9","0","0">>, <<"J","F","K"," ","9","9","0","0">>>>),
     JoinLines(<<<<"J","F","K"," ","9","9","0","0">>, <<"A","B"," ","1","2","3","4">>, <<"B","D","L"," ","9","9">>>>)}

BulletinOutcomes == {HttpError(404), UrlError, OtherError} \cup {TextData(t) : t \in Bulletins}

CoordOutcomes ==
    {CoordError, CoordEmpty, CoordMalformed,
     CoordJson(<<>>),
     CoordJson(<<Station(<<"K">> \o BOS, 42, 71)>>),
     CoordJson(<<Station(<<"K">> \o JFK, 40, 73), Station(<<"K">> \o BOS, 42, 71)>>),
     CoordJson(<<Station(<<"K">> \o JFK, 40, 73), BadStation>>),
     CoordJson(<<BadStation, Station(<<"K">> \o BDL, 41, 72)>>),
     CoordJson(<<Station(BDL, 41, 72), Station(<<"K","X","Y","Z">>, 1, 1)>>),
     CoordJson(<<Station(<<"K">> \o BOS, 42, 71), Station(<<"K">> \o BOS, 43, 70)>>)}

RegionParams == {None, Some("xxx")}
FcstParams == {None, Some("24"), Some("7")}

(* The remote's answers are drawn only for a call that reaches the fetch.  *)
WindsNext ==
    \E region_param \in RegionParams, fcst_param \in FcstParams :
        \E bulletin \in IF IsNone(region_param) THEN BulletinOutcomes ELSE {UrlError} :
            \E outcome \in IF bulletin.kind = "data" THEN CoordOutcomes ELSE {CoordError} :
                WindsAloftHandler(region_param, fcst_param, bulletin, outcome)

SpecWinds == Init /\ [][WindsNext]_vars

(* C1: a code that a returned call of fetch_station_coordinates was given  *)
(* (found, missing from the answer, or the lookup failed) is in no later   *)
(* remote coordinate lookup, and a call whose codes are all cached issues  *)
(* no outbound coordinate call.                                            *)
IsStationInfo(call) == call.api = "stationinfo"

C1_ResolvedCodeIsNeverLookedUpAgain ==
    [][/\ \A k \in 1..Len(outbound') :
             IsStationInfo(outbound'[k]) =>
                 \A c \in requested : (<<"K">> \o c) \notin Range(outbound'[k].ids)
       /\ (ret'.fn = "fetch_station_coordinates" /\ Range(ret'.args) \subseteq DOMAIN station_coords_cache)
              => \A k \in 1..Len(outbound') : ~IsStationInfo(outbound'[k])]_vars

(* C1 witness: a call given a code cached as absent, and another one,      *)
(* returned having issued only the bulletin fetch.                         *)
C1_Witness ==
    /\ ret.fn = "fetch_station_coordinates"
    /\ Len(ret.args) = 2
    /\ \E c \in Range(ret.args) : IsNone(station_coords_cache[c])
    /\ Len(outbound) = 1

(* C9: when the bulletin fetch succeeds the handler answers 200 with raw   *)
(* equal to the bulletin text, whatever the coordinate lookup met; a       *)
(* coordinate failure only leaves stationCoords with fewer of the          *)
(* bulletin's codes.                                                       *)
C9_CoordinateFailureIsSwallowed ==
    (request.handler = "winds_aloft" /\ Len(upstream) >= 1 /\ upstream[1].kind = "data") =>
        /\ response.statusCode = 200
        /\ response.body.kind = "json"
        /\ response.body.value.raw = upstream[1].text
        /\ DOMAIN response.body.value.stationCoords \subseteq extract_station_codes(upstream[1].text)

(* C9 witness: the coordinate lookup raised part way through its answer    *)
(* and the response is 200 with the bulletin.                              *)
C9_Witness ==
    /\ request.handler = "winds_aloft"
    /\ Len(upstream) = 2
    /\ upstream[2].kind = "json"
    /\ \E i \in 1..Len(upstream[2].stations) : upstream[2].stations[i].bad
    /\ response.statusCode = 200
    /\ Len(response.body.value.raw) > 0

(* C11: when fetch_station_coordinates returns, every code it was given is *)
(* a key of _station_coords_cache, and the mapping returned holds exactly  *)
(* the given codes whose cached value is not None, each with its cached    *)
(* coordinate, also when the stations loop raised part way through.        *)
(* Violated: a station cached by the loop before a later station raises is *)
(* reset to None by the except branch while coords keeps it.               *)
PresentCodes(codes, cache) == {c \in Range(codes) \cap DOMAIN cache : ~IsNone(cache[c])}

C11_ReturnedMappingIsThePresentCachedValues ==
    ret.fn = "fetch_station_coordinates" =>
        /\ Range(ret.args) \subseteq DOMAIN station_coords_cache
        /\ DOMAIN ret.value = PresentCodes(ret.args, station_coords_cache)
        /\ \A c \in DOMAIN ret.value : ret.value[c] = Value(station_coords_cache[c])

-----------------------------------------------------------------------------
(* extract_station_codes called on a bulletin (SpecExtract).               *)

LineUniverse ==
    {<<>>,
     <<" "," ">>,
     <<"(","E","x","t","r","a","c","t","e","d">>,
     <<"F","D","1","U","S","1">>,
     <<"D","A","T","A"," ","B","A","S","E","D">>,
     <<"V","A","L","I","D"," ","1","2","Z">>,
     <<"F","T"," ","3","0","0","0">>,
     <<"B","O","S"," ","9","9","0","0"," ","2","7","1","6","+","0","4"," ","2","4","2","3","-","0","4">>,
     <<"A","B"," ","1","2","3","4">>,
     <<" ","J","F","K"," ","9","9">>,
     <<"\t","F","T","W"," ","9","9">>,
     <<"F","T","X"," ","9","9">>,
     <<"A","B","C","D"," ","1">>,
     <<"B","1","S"," ","9">>,
     <<"B","D","L"," ","T","E","M","P","S"," ","N","E","G">>,
     <<"b","o","s"," ","5">>,
     <<"J","F","K","\t","9","9","\r">>,
     <<"B","O","S"," ","1">>}

ExampleLine == <<"B","O","S"," ","9","9","0","0"," ","2","7","1","6","+","0","4"," ","2","4","2","3","-","0","4">>

InitExtract ==
    /\ airport_cache = None
    /\ station_coords_cache = EmptyDict
    /\ request \in {[handler |-> "extract_station_codes", raw_data |-> JoinLines(ls)] :
                       ls \in BSeq(LineUniverse, MaxLines)}
    /\ outbound = <<>>
    /\ upstream = <<>>
    /\ limit = 0
    /\ requested = {}
    /\ ret = NoCall
    /\ response = NoResponse
    /\ airport_fetches = [i \in Invocations |-> NotCalled]
    /\ coord_fetches = [i \in Invocations |-> NotCalled]

ExtractNext == ExtractStationCodesCall(request.raw_data)

SpecExtract == InitExtract /\ [][ExtractNext]_vars

IsStationToken(t) == Len(t) = 3 /\ IsAlpha(t)

(* The codes the claim describes, with the header tests made on the lines  *)
(* as they stand, or on the trimmed lines.                                 *)
ClaimedCodes(raw_data, trimmed) ==
    {SplitWs(l)[1] :
        l \in {m \in Range(SplitOn(raw_data, "\n")) :
                  LET seen == IF trimmed THEN Strip(m) ELSE m
                  IN  /\ Len(SplitWs(m)) > 0
                      /\ \A p \in HeaderPrefixes : ~StartsWith(seen, p)
                      /\ ~Contains(seen, TempsNeg)
                      /\ IsStationToken(SplitWs(m)[1])}}

ExtractReturned == ret.fn = "extract_station_codes"

ExtractResultIs(trimmed) ==
    /\ Range(ret.value) = ClaimedCodes(ret.args, trimmed)
    /\ Cardinality(Range(ret.value)) = Len(ret.value)
    /\ ret.args = JoinLines(<<<<"F","D","1","U","S","1">>, ExampleLine>>) => ret.value = <<BOS>>
    /\ ret.args = JoinLines(<<<<"A","B"," ","1","2","3","4">>, <<"V","A","L","I","D"," ","1","2","Z">>>>) => ret.value = <<>>

(* C10 as stated: a line is left out when it starts with a header prefix.  *)
C10_AsStated == ExtractReturned => ExtractResultIs(FALSE)

(* C10, amended: extract_station_codes returns exactly the first           *)
(* whitespace-delimited tokens that are 3 letters, over the lines that,    *)
(* once trimmed of leading and trailing whitespace, are not blank, do not  *)
(* start with (, FD, DATA, VALID or FT and do not contain TEMPS NEG; no    *)
(* duplicates; the example bulletin gives exactly BOS, and the lines       *)
(* "AB 1234" and "VALID 12Z" give nothing.                                 *)
C10_ExtractsThreeLetterFirstTokens == ExtractReturned => ExtractResultIs(TRUE)

(* C10 witness: an indented line whose token starts with FT is skipped and *)
(* the example line gives BOS.                                             *)
C10_Witness ==
    /\ ExtractReturned
    /\ ret.args = JoinLines(<<<<"\t","F","T","W"," ","9","9">>, ExampleLine>>)
    /\ ret.value = <<BOS>>

-----------------------------------------------------------------------------
(* The AirportLookup and MetarProxy handlers (SpecIcao).                   *)

IcaoParams ==
    {None, Some(<<>>), Some(<<"a","b">>), Some(<<"b","o","s">>), Some(<<"k","b","o","s">>), Some(<<" ","k","j","f","k"," ">>), Some(<<"k","b","o","s","x">>), Some(<<" ","a"," ","b"," ">>),
     Some(<<" "," ","a","b"," "," ">>), Some(<<"K","O","R","D">>), Some(<<"o","r","d">>)}

FullStation ==
    [bad |-> FALSE, icaoId |-> Some(<<"K","B","O","S">>), site |-> Some(<<"L","o","g","a","n">>), lat |-> 42, lon |-> 0 - 71,
     elev |-> Some(6), state |-> Some(<<"M","A">>), country |-> Some(<<"U","S">>)]
BareStation ==
    [bad |-> FALSE, icaoId |-> None, site |-> None, lat |-> 40, lon |-> 0 - 73,
     elev |-> None, state |-> None, country |-> None]
NotAStation ==
    [bad |-> TRUE, icaoId |-> None, site |-> None, lat |-> 0, lon |-> 0,
     elev |-> None, state |-> None, country |-> None]

LookupOutcomes ==
    {HttpError(400), HttpError(404), UrlError, OtherError, LookupBlank, LookupMalformed,
     LookupJson(<<>>), LookupJson(<<FullStation, BareStation>>), LookupJson(<<BareStation>>),
     LookupJson(<<NotAStation>>)}

MetarOutcomes ==
    {HttpError(400), HttpError(404), UrlError, OtherError, TextData(<<>>), TextData(<<"K","B","O","S"," ","0","4","1","2","5","4","Z">>)}

IcaoNext ==
    \/ \E icao_param \in IcaoParams, outcome \in LookupOutcomes : AirportLookupHandler(icao_param, outcome)
    \/ \E icao_param \in IcaoParams, outcome \in MetarOutcomes : MetarHandler(icao_param, outcome)

SpecIcao == Init /\ [][IcaoNext]_vars

NormalizedLen(icao) == Len(Strip(Upper(icao)))

InvalidInput == ErrorResponse(400, "Invalid ICAO code")

(* C7: an icao whose length after uppercasing and trimming is outside      *)
(* 3..4 (the empty string, and an absent parameter for AirportLookup,      *)
(* included) is answered InvalidInput (400) by AirportLookup and by        *)
(* MetarProxy with no outbound call; MetarProxy without the parameter uses *)
(* KBOS and is not rejected.                                               *)
C7_BadIcaoIsRejectedBeforeAnyCall ==
    /\ request.handler = "airport_lookup" =>
          (NormalizedLen(QueryOf(request.icao)) \notin 3..4
              => (response = InvalidInput /\ response.statusCode = 400 /\ outbound = <<>>))
    /\ request.handler = "metar" =>
          /\ (~IsNone(request.icao) /\ NormalizedLen(Value(request.icao)) \notin 3..4)
                => (response = InvalidInput /\ response.statusCode = 400 /\ outbound = <<>>)
          /\ IsNone(request.icao)
                => (response # InvalidInput /\ outbound = <<[api |-> "metar", ids |-> <<DefaultIcao>>]>>)

(* C7 witness: AirportLookup rejected a 2-letter code padded with blanks   *)
(* to 6 characters, with no outbound call.                                 *)
C7_Witness ==
    /\ request.handler = "airport_lookup"
    /\ request.icao = Some(<<" "," ","a","b"," "," ">>)
    /\ response = InvalidInput
    /\ outbound = <<>>

-----------------------------------------------------------------------------
(* The four handlers in one process (Spec), on a few inputs each.          *)

Next ==
    \/ \E q \in {None, Some(<<"b">>), Some(<<"b","o">>)}, limit_param \in {None, Some(<<"2">>)} :
           \E outcome \in {DatasetError, DatasetData(<<RowKXBO, RowKBOS>>)} :
               AirportSearchHandler(q, limit_param, outcome)
    \/ \E region_param \in RegionParams :
           \E bulletin \in {UrlError, TextData(JoinLines(<<ExampleLine>>))} :
               \E outcome \in {CoordError, CoordJson(<<Station(<<"K">> \o BOS, 42, 71)>>)} :
                   WindsAloftHandler(region_param, None, bulletin, outcome)
    \/ \E icao_param \in IcaoParams, outcome \in LookupOutcomes : AirportLookupHandler(icao_param, outcome)
    \/ \E icao_param \in IcaoParams, outcome \in MetarOutcomes : MetarHandler(icao_param, outcome)

Spec == Init /\ [][Next]_vars

MaxAgeOf(handler) ==
    IF handler = "airport_lookup" THEN "max-age=86400"
    ELSE IF handler = "airport_search" THEN "max-age=3600"
    ELSE IF handler = "metar" THEN "max-age=300"
    ELSE "max-age=1800"

(* C8: every response with status 200 of any of the four handlers carries  *)
(* Cache-Control: max-age=<the endpoint's seconds>, together with          *)
(* Access-Control-Allow-Headers and Access-Control-Allow-Methods; the 200  *)
(* that AirportSearch gives a query shorter than 2 characters included.    *)
C8_EverySuccessCarriesCacheControl ==
    response.statusCode = 200 =>
        /\ {"Cache-Control", "Access-Control-Allow-Headers", "Access-Control-Allow-Methods"}
               \subseteq DOMAIN response.headers
        /\ response.headers["Cache-Control"] = MaxAgeOf(request.handler)

-----------------------------------------------------------------------------
(* Calls of fetch_all_airports in flight at once in one process            *)
(* (SpecConcurrentAirports).  Each call runs its statements in order and   *)
(* any other call may run between two of them: the test of _airport_cache, *)
(* the transfer, each pass of the row loop, the sort, the assignment to    *)
(* _airport_cache and the return are steps.  The list `airports` is local  *)
(* to its call until the assignment.                                       *)

(* What the handlers called one at a time record of their last call; the   *)
(* calls in flight leave it alone.                                         *)
SequentialVars == <<request, outbound, upstream, limit, requested, ret, response>>

AirportFetch(pc, outcome, rows, airports, raised, returned) ==
    [pc |-> pc, outcome |-> outcome, rows |-> rows, airports |-> airports,
     raised |-> raised, returned |-> returned]

ConcurrentDatasetOutcomes ==
    {DatasetError,
     DatasetData(<<RowKBOS>>),
     DatasetData(<<RowKXBO, RowKBOS>>),
     DatasetData(<<RowKBOS2, RowKXBO, RowKBOS, RowKBOA>>),
     DatasetData(<<RowKBOS, RowCut, RowKBOA>>),
     DatasetData(<<RowCanada, RowCut>>)}

(* Mutant of AfterRowLoop: the list is stored as the row loop left it.     *)
AfterRowLoop_unsorted == "store"

(* The statement the row loop falls through to: airports.sort(...).        *)
AfterRowLoop == "sort"

(* if _airport_cache is not None: return _airport_cache                    *)
FetchAllAirportsCheck(i) ==
    /\ airport_fetches[i].pc = "idle"
    /\ airport_fetches' =
          [airport_fetches EXCEPT ![i] =
              IF ~IsNone(airport_cache)
              THEN AirportFetch("done", None, <<>>, <<>>, FALSE, airport_cache)
              ELSE AirportFetch("urlopen", None, <<>>, <<>>, FALSE, None)]
    /\ UNCHANGED <<airport_cache, station_coords_cache, coord_fetches, SequentialVars>>

(* urlopen, read, decode, csv.DictReader; airports = []                    *)
FetchAllAirportsOpen(i, outcome) ==
    /\ airport_fetches[i].pc = "urlopen"
    /\ airport_fetches' =
          [airport_fetches EXCEPT ![i] =
              IF outcome.kind = "error"
              THEN AirportFetch("except", Some(outcome), <<>>, <<>>, TRUE, None)
              ELSE AirportFetch("rows", Some(outcome), outcome.rows, <<>>, FALSE, None)]
    /\ UNCHANGED <<airport_cache, station_coords_cache, coord_fetches, SequentialVars>>

(* One pass of `for row in reader`.                                        *)
FetchAllAirportsRow(i) ==
    LET f == airport_fetches[i]
        parsed == ParseRows(<<Head(f.rows)>>, f.airports)
    IN  /\ f.pc = "rows"
        /\ airport_fetches' =
              [airport_fetches EXCEPT ![i] =
                  IF Len(f.rows) = 0
                  THEN [f EXCEPT !.pc = AfterRowLoop]
                  ELSE IF IsNone(parsed)
                  THEN [f EXCEPT !.pc = "except", !.raised = TRUE]
                  ELSE [f EXCEPT !.rows = Tail(f.rows), !.airports = Value(parsed)]]
        /\ UNCHANGED <<airport_cache, station_coords_cache, coord_fetches, SequentialVars>>

(* airports.sort(key=lambda x: x['icao'])                                  *)
FetchAllAirportsSort(i) ==
    LET f == airport_fetches[i]
    IN  /\ f.pc = "sort"
        /\ airport_fetches' =
              [airport_fetches EXCEPT ![i] = [f EXCEPT !.pc = "store", !.airports = SortByIcao(f.airports)]]
        /\ UNCHANGED <<airport_cache, station_coords_cache, coord_fetches, SequentialVars>>

(* _airport_cache = airports                                               *)
FetchAllAirportsStore(i) ==
    LET f == airport_fetches[i]
    IN  /\ f.pc = "store"
        /\ airport_cache' = Some(f.airports)
        /\ airport_fetches' = [airport_fetches EXCEPT ![i] = [f EXCEPT !.pc = "return"]]
        /\ UNCHANGED <<station_coords_cache, coord_fetches, SequentialVars>>

(* return airports                                                         *)
FetchAllAirportsReturn(i) ==
    LET f == airport_fetches[i]
    IN  /\ f.pc = "return"
        /\ airport_fetches' =
              [airport_fetches EXCEPT ![i] = [f EXCEPT !.pc = "done", !.returned = Some(f.airports)]]
        /\ UNCHANGED <<airport_cache, station_coords_cache, coord_fetches, SequentialVars>>

(* except Exception: return []                                             *)
FetchAllAirportsExcept(i) ==
    LET f == airport_fetches[i]
    IN  /\ f.pc = "except"
        /\ airport_fetches' =
              [airport_fetches EXCEPT ![i] = [f EXCEPT !.pc = "done", !.returned = Some(<<>>)]]
        /\ UNCHANGED <<airport_cache, station_coords_cache, coord_fetches, SequentialVars>>

ConcurrentAirportsNext ==
    \E i \in Invocations :
        \/ FetchAllAirportsCheck(i)
        \/ \E outcome \in ConcurrentDatasetOutcomes : FetchAllAirportsOpen(i, outcome)
        \/ FetchAllAirportsRow(i)
        \/ FetchAllAirportsSort(i)
        \/ FetchAllAirportsStore(i)
        \/ FetchAllAirportsReturn(i)
        \/ FetchAllAirportsExcept(i)

SpecConcurrentAirports == Init /\ [][ConcurrentAirportsNext]_vars

(* The transfers the calls so far got an answer to.                        *)
Fetched == {Value(airport_fetches[i].outcome) : i \in {j \in Invocations :
               airport_fetches[j].pc \notin {"idle", "urlopen"} /\ ~IsNone(airport_fetches[j].outcome)}}

(* _airport_cache is None, or the whole sorted list of one of the          *)
(* transfers made.                                                         *)
CacheIsCompleteAndSorted ==
    \/ IsNone(airport_cache)
    \/ /\ IsSortedByIcao(Value(airport_cache))
       /\ \E outcome \in Fetched :
             /\ ~DatasetFails(outcome)
             /\ Len(Value(airport_cache)) = Cardinality({k \in 1..Len(outcome.rows) : RowKept(outcome.rows[k])})
             /\ airport_cache = LoadAirports(outcome)

(* C12: under any interleaving of first-time calls of fetch_all_airports,  *)
(* failing ones included, _airport_cache is in every state None or a       *)
(* complete list sorted by ICAO code, and no step, a failing call's        *)
(* included, takes it from populated back to None.                         *)
C12_CacheIsNoneOrCompleteSortedList ==
    /\ [](CacheIsCompleteAndSorted)
    /\ [][~IsNone(airport_cache) => ~IsNone(airport_cache')]_vars

(* C12 witness: two calls both found the cache empty and both made the     *)
(* transfer; one raised in its row loop and returned [], the other stored  *)
(* a list of several airports, which is still the cache.                   *)
C12_Witness ==
    \E i, j \in Invocations :
        /\ airport_fetches[i].pc = "done"
        /\ airport_fetches[i].raised
        /\ Len(Value(airport_fetches[i].outcome).rows) > 1
        /\ airport_fetches[j].pc = "done"
        /\ ~airport_fetches[j].raised
        /\ ~IsNone(airport_fetches[j].outcome)
        /\ Len(Value(airport_fetches[j].returned)) > 2
        /\ airport_cache = airport_fetches[j].returned

-----------------------------------------------------------------------------
(* Calls of fetch_station_coordinates in flight at once in one process     *)
(* (SpecConcurrentCoords).  Each pass of each of its four loops, the       *)
(* transfer and the return are steps, and any other call may run between   *)
(* two of them.  coords and codes_to_fetch are local to their call;        *)
(* _station_coords_cache is shared.                                        *)

CoordFetch(pc, station_codes, rest, coords, codes_to_fetch, returned) ==
    [pc |-> pc, station_codes |-> station_codes, rest |-> rest, coords |-> coords,
     codes_to_fetch |-> codes_to_fetch, returned |-> returned]

ConcurrentStationCodes == {<<BOS>>, <<JFK, BOS>>}

ConcurrentCoordOutcomes ==
    {CoordError, CoordEmpty,
     CoordJson(<<Station(<<"K">> \o BOS, 42, 71)>>),
     CoordJson(<<Station(<<"K">> \o JFK, 40, 73), Station(<<"K">> \o BOS, 42, 71)>>),
     CoordJson(<<Station(<<"K">> \o JFK, 40, 73), BadStation>>)}

(* fetch_station_coordinates(station_codes) is called: coords = {},        *)
(* codes_to_fetch = []                                                     *)
FetchStationCoordinatesCall(i, station_codes) ==
    /\ coord_fetches[i].pc = "idle"
    /\ coord_fetches' =
          [coord_fetches EXCEPT ![i] = CoordFetch("check", station_codes, station_codes, EmptyDict, <<>>, None)]
    /\ UNCHANGED <<station_coords_cache, airport_cache, airport_fetches, SequentialVars>>

(* One pass of `for code in station_codes`; after the last one,            *)
(* `if not codes_to_fetch: return coords`.                                 *)
FetchStationCoordinatesCheck(i) ==
    LET f == coord_fetches[i]
        checked == CacheCheck(<<Head(f.rest)>>, station_coords_cache, f.coords, f.codes_to_fetch)
    IN  /\ f.pc = "check"
        /\ coord_fetches' =
              [coord_fetches EXCEPT ![i] =
                  IF Len(f.rest) > 0
                  THEN [f EXCEPT !.rest = Tail(f.rest), !.coords = checked.coords,
                                 !.codes_to_fetch = checked.codes_to_fetch]
                  ELSE IF Len(f.codes_to_fetch) = 0
                  THEN [f EXCEPT !.pc = "done", !.returned = Some(f.coords)]
                  ELSE [f EXCEPT !.pc = "urlopen"]]
        /\ UNCHANGED <<station_coords_cache, airport_cache, airport_fetches, SequentialVars>>

(* urlopen, read, decode; `if data:` and json.loads                        *)
FetchStationCoordinatesOpen(i, outcome) ==
    LET f == coord_fetches[i]
    IN  /\ f.pc = "urlopen"
        /\ coord_fetches' =
              [coord_fetches EXCEPT ![i] =
                  IF outcome.kind \in {"error", "malformed"}
                  THEN [f EXCEPT !.pc = "except", !.rest = f.codes_to_fetch]
                  ELSE IF outcome.kind = "empty"
                  THEN [f EXCEPT !.pc = "mark", !.rest = f.codes_to_fetch]
                  ELSE [f EXCEPT !.pc = "stations", !.rest = outcome.stations]]
        /\ UNCHANGED <<station_coords_cache, airport_cache, airport_fetches, SequentialVars>>

(* One pass of `for station in stations_data`.                             *)
FetchStationCoordinatesStation(i) ==
    LET f == coord_fetches[i]
        looped == StationLoop(<<Head(f.rest)>>, f.codes_to_fetch, f.coords, station_coords_cache)
    IN  /\ f.pc = "stations"
        /\ IF Len(f.rest) = 0
           THEN /\ coord_fetches' = [coord_fetches EXCEPT ![i] = [f EXCEPT !.pc = "mark", !.rest = f.codes_to_fetch]]
                /\ UNCHANGED station_coords_cache
           ELSE IF looped.raised
           THEN /\ coord_fetches' = [coord_fetches EXCEPT ![i] = [f EXCEPT !.pc = "except", !.rest = f.codes_to_fetch]]
                /\ UNCHANGED station_coords_cache
           ELSE /\ coord_fetches' = [coord_fetches EXCEPT ![i] = [f EXCEPT !.rest = Tail(f.rest), !.coords = looped.coords]]
                /\ station_coords_cache' = looped.cache
        /\ UNCHANGED <<airport_cache, airport_fetches, SequentialVars>>

(* One pass of `for code in codes_to_fetch: if code not in coords`; after  *)
(* the last one, `return coords`.                                          *)
FetchStationCoordinatesMark(i) ==
    LET f == coord_fetches[i]
    IN  /\ f.pc = "mark"
        /\ IF Len(f.rest) = 0
           THEN /\ coord_fetches' = [coord_fetches EXCEPT ![i] = [f EXCEPT !.pc = "done", !.returned = Some(f.coords)]]
                /\ UNCHANGED station_coords_cache
           ELSE /\ coord_fetches' = [coord_fetches EXCEPT ![i] = [f EXCEPT !.rest = Tail(f.rest)]]
                /\ station_coords_cache' = MarkMissing(<<Head(f.rest)>>, f.coords, station_coords_cache)
        /\ UNCHANGED <<airport_cache, airport_fetches, SequentialVars>>

(* One pass of the except branch's `for code in codes_to_fetch`; after the *)
(* last one, `return coords`.                                              *)
FetchStationCoordinatesExcept(i) ==
    LET f == coord_fetches[i]
    IN  /\ f.pc = "except"
        /\ IF Len(f.rest) = 0
           THEN /\ coord_fetches' = [coord_fetches EXCEPT ![i] = [f EXCEPT !.pc = "done", !.returned = Some(f.coords)]]
                /\ UNCHANGED station_coords_cache
           ELSE /\ coord_fetches' = [coord_fetches EXCEPT ![i] = [f EXCEPT !.rest = Tail(f.rest)]]
                /\ station_coords_cache' = MarkAll(<<Head(f.rest)>>, station_coords_cache)
        /\ UNCHANGED <<airport_cache, airport_fetches, SequentialVars>>

ConcurrentCoordsNext ==
    \E i \in Invocations :
        \/ \E station_codes \in ConcurrentStationCodes : FetchStationCoordinatesCall(i, station_codes)
        \/ FetchStationCoordinatesCheck(i)
        \/ \E outcome \in ConcurrentCoordOutcomes : FetchStationCoordinatesOpen(i, outcome)
        \/ FetchStationCoordinatesStation(i)
        \/ FetchStationCoordinatesMark(i)
        \/ FetchStationCoordinatesExcept(i)

SpecConcurrentCoords == Init /\ [][ConcurrentCoordsNext]_vars

(* C13: under any interleaving of calls of fetch_station_coordinates no    *)
(* key of _station_coords_cache is ever removed, and a code cached with a  *)
(* coordinate is never later cached as None.                               *)
(* Violated: a call that put a code in its codes_to_fetch sets it to None  *)
(* (its lookup failed, or its answer lacked the code) after another call,  *)
(* or its own stations loop, cached the coordinate.                        *)
C13_CacheGrowsMonotonically ==
    [][/\ DOMAIN station_coords_cache \subseteq DOMAIN station_coords_cache'
       /\ \A c \in DOMAIN station_coords_cache :
             ~IsNone(station_coords_cache[c]) => ~IsNone(station_coords_cache'[c])]_vars

====
